---- MODULE Spec2Model ----
(***************************************************************************)
(* Model of "simple cryptogram/data/populate_daily_puzzles.py": a one-shot *)
(* script that reads up to NUM_DAYS medium quotes from the quotes table    *)
(* and schedules the i-th of them on START_DATE + i days in daily_puzzles  *)
(* with INSERT OR IGNORE, commits once, closes and prints a summary.       *)
(*                                                                         *)
(* The store is modelled with its transaction: db is the committed content *)
(* of daily_puzzles, txn the content the open connection sees.  A table is *)
(* a sequence of rows (rowid order), so that duplicate rows are possible   *)
(* in the model and uniqueness is something the insert has to establish.   *)
(***************************************************************************)
EXTENDS Integers, Sequences, FiniteSets

VARIABLES
    quotes,      \* the quotes table, in the store's scan order: rows [id, difficulty]
    unique,      \* the columns of daily_puzzles' uniqueness constraint
    db,          \* daily_puzzles as committed on disk
    txn,         \* daily_puzzles as seen by the connection (uncommitted rows included)
    conn,        \* "none" | "open" | "closed"
    pc,          \* position of the script
    quote_ids,   \* the list built at line 14
    i,           \* number of loop iterations completed (enumerate index of the next)
    attempted,   \* the (quote_id, puzzle_date) arguments of the INSERTs executed this run
    stdout,      \* lines printed by this run
    dbAtStart,   \* db when this run started
    commits,     \* number of commits of this run
    runs,        \* number of runs started
    okRuns       \* number of runs that reached the end of the script

vars == <<quotes, unique, db, txn, conn, pc, quote_ids, i, attempted, stdout,
          dbAtStart, commits, runs, okRuns>>

----------------------------------------------------------------------------
(* Bounds of the model *)

MaxQuotes == 3      \* small quotes tables have 0..MaxQuotes rows
MaxOver == 1        \* large quotes tables have NUM_DAYS+1..NUM_DAYS+MaxOver rows
MaxInitRows == 2    \* rows of daily_puzzles before the first run (small tables)
MaxRuns == 2        \* executions of the script in a behaviour

----------------------------------------------------------------------------
(* Module constants of the script *)

START_DATE == <<2025, 4, 23>>
NUM_DAYS == 365

Difficulties == {"easy", "medium", "hard"}
UniqueKinds == {"pair", "date", "quote"}

----------------------------------------------------------------------------
(* datetime arithmetic and formatting, as the datetime module computes it *)

MinOf(a, b) == IF a < b THEN a ELSE b

is_leap(y) == y % 4 = 0 /\ (y % 100 # 0 \/ y % 400 = 0)

DAYS_IN_MONTH == <<31, 28, 31, 30, 31, 30, 31, 31, 30, 31, 30, 31>>
DAYS_BEFORE_MONTH == <<0, 31, 59, 90, 120, 151, 181, 212, 243, 273, 304, 334>>

days_before_year(y) ==
    LET p == y - 1 IN p * 365 + (p \div 4) - (p \div 100) + (p \div 400)

days_before_month(y, m) ==
    DAYS_BEFORE_MONTH[m] + (IF m > 2 /\ is_leap(y) THEN 1 ELSE 0)

\* date.toordinal()
ymd2ord(d) == days_before_year(d[1]) + days_before_month(d[1], d[2]) + d[3]

\* date.fromordinal()
ord2ymd(ord) ==
    LET n0   == ord - 1
        n400 == n0 \div 146097
        r400 == n0 % 146097
        n100 == r400 \div 36524
        r100 == r400 % 36524
        n4   == r100 \div 1461
        r4   == r100 % 1461
        n1   == r4 \div 365
        n    == r4 % 365
        year == n400 * 400 + 1 + n100 * 100 + n4 * 4 + n1
        leap == n1 = 3 /\ (n4 # 24 \/ n100 = 3)
        m0   == (n + 50) \div 32
        p0   == DAYS_BEFORE_MONTH[m0] + (IF m0 > 2 /\ leap THEN 1 ELSE 0)
        month == IF p0 > n THEN m0 - 1 ELSE m0
        prec == IF p0 > n
                THEN p0 - (DAYS_IN_MONTH[month] + (IF month = 2 /\ leap THEN 1 ELSE 0))
                ELSE p0
    IN  IF n1 = 4 \/ n100 = 4
        THEN <<year - 1, 12, 31>>
        ELSE <<year, month, n - prec + 1>>

\* START_DATE + timedelta(days=k)
AddDays(d, k) == ord2ymd(ymd2ord(d) + k)

Digit(n) == CASE n = 0 -> "0" [] n = 1 -> "1" [] n = 2 -> "2" [] n = 3 -> "3"
              [] n = 4 -> "4" [] n = 5 -> "5" [] n = 6 -> "6" [] n = 7 -> "7"
              [] n = 8 -> "8" [] n = 9 -> "9"

\* zero-padded decimal of width w (%Y is width 4, %m and %d width 2)
RECURSIVE Pad(_, _)
Pad(n, w) == IF w = 0 THEN "" ELSE Pad(n \div 10, w - 1) \o Digit(n % 10)

\* str(n) for n >= 0, as the f-string formats len(quote_ids)
RECURSIVE DecStr(_)
DecStr(n) == IF n < 10 THEN Digit(n) ELSE DecStr(n \div 10) \o Digit(n % 10)

\* d.strftime('%Y-%m-%d')
strftime(d) == Pad(d[1], 4) \o "-" \o Pad(d[2], 2) \o "-" \o Pad(d[3], 2)

\* variant: the index counted from one, as enumerate(quote_ids, 1) would give it
puzzle_date_from_one(k) == strftime(AddDays(START_DATE, k + 1))

\* line 17
puzzle_date(k) == strftime(AddDays(START_DATE, k))

----------------------------------------------------------------------------
(* The store *)

Row(q, d) == [quote_id |-> q, puzzle_date |-> d]

\* the key of a row under the table's uniqueness constraint
Key(kind, r) ==
    CASE kind = "pair"  -> <<r.quote_id, r.puzzle_date>>
      [] kind = "date"  -> <<r.puzzle_date>>
      [] kind = "quote" -> <<r.quote_id>>

\* variant: a conflict only when the whole row is already there
ConflictsWholeRow(kind, rows, r) ==
    \E k \in DOMAIN rows : rows[k] = r

Conflicts(kind, rows, r) ==
    \E k \in DOMAIN rows : Key(kind, rows[k]) = Key(kind, r)

\* variant: a plain INSERT into a table that does not reject the row
InsertPlain(kind, rows, r) == Append(rows, r)

\* variant: INSERT OR REPLACE, which deletes the conflicting rows first
InsertOrReplace(kind, rows, r) ==
    LET Keeps(x) == Key(kind, x) # Key(kind, r)
    IN  Append(SelectSeq(rows, Keeps), r)

\* INSERT OR IGNORE INTO daily_puzzles (quote_id, puzzle_date) VALUES (?, ?)
InsertOrIgnore(kind, rows, r) ==
    IF Conflicts(kind, rows, r) THEN rows ELSE Append(rows, r)

\* variant: the WHERE clause left out
IsAnyDifficulty(q) == q.difficulty \in Difficulties

IsMedium(q) == q.difficulty = "medium"

\* variant: the LIMIT clause left out
SelectMediumNoLimit(qs, limit) ==
    LET med == SelectSeq(qs, IsMedium)
    IN  [k \in 1..Len(med) |-> med[k].id]

\* SELECT id FROM quotes WHERE difficulty = 'medium' LIMIT ?
SelectMedium(qs, limit) ==
    LET med == SelectSeq(qs, IsMedium)
    IN  [k \in 1..MinOf(Len(med), limit) |-> med[k].id]

\* variant: the summary counts the rows the run added
SummaryOfInserted(ids) ==
    "Populated " \o DecStr(Len(db) - Len(dbAtStart)) \o " daily puzzles starting from "
        \o strftime(START_DATE)

\* the summary line of line 22
Summary(ids) ==
    "Populated " \o DecStr(Len(ids)) \o " daily puzzles starting from "
        \o strftime(START_DATE)

----------------------------------------------------------------------------
(* Store states the script can be started on *)

\* the store returns quotes in its own scan order, which is not id order
IdAt(p) == IF p % 2 = 1 THEN p + 1 ELSE p - 1

\* the table of n quotes whose p-th row has difficulty diff[p]
QuoteTable(n, diff) == [p \in 1..n |-> [id |-> IdAt(p), difficulty |-> diff[p]]]

\* every table of at most MaxQuotes quotes, each medium or not
SmallTables ==
    UNION { { QuoteTable(n, f) : f \in [1..n -> {"easy", "medium"}] }
            : n \in 0..MaxQuotes }

\* tables of more than NUM_DAYS quotes, all medium (hole = 0) or all but one
LargeTables ==
    { QuoteTable(n, [p \in 1..n |-> IF p = hole THEN "hard" ELSE "medium"])
        : n \in (NUM_DAYS + 1)..(NUM_DAYS + MaxOver), hole \in {0, 2} }

\* no two rows of the table share the constrained key
IsUnique(kind, rows) ==
    \A a, b \in DOMAIN rows : a # b => Key(kind, rows[a]) # Key(kind, rows[b])

PoolRows == << Row(2, "2025-04-23"), Row(1, "2025-04-23"), Row(1, "2025-04-24"),
               Row(2, "2025-04-22"), Row(2, "2025-04-24"), Row(1, "2025-04-22") >>

\* the rows of pool whose index is in S, in pool order
Pick(pool, S) ==
    [j \in 1..Cardinality(S) |->
        pool[CHOOSE x \in S : Cardinality({y \in S : y < x}) = j - 1]]

PuzzleTables(kind, pool, max) ==
    { t \in { Pick(pool, S) : S \in { T \in SUBSET DOMAIN pool : Cardinality(T) <= max } }
        : IsUnique(kind, t) }

InitStore ==
    /\ unique \in UniqueKinds
    /\ \/ /\ quotes \in SmallTables
          /\ db \in PuzzleTables(unique, PoolRows, MaxInitRows)
       \/ /\ quotes \in LargeTables
          /\ db \in PuzzleTables(unique, SubSeq(PoolRows, 1, 2), 1)

Init ==
    /\ InitStore
    /\ txn = db
    /\ conn = "none"
    /\ pc = "connect"
    /\ quote_ids = <<>>
    /\ i = 0
    /\ attempted = <<>>
    /\ stdout = <<>>
    /\ dbAtStart = db
    /\ commits = 0
    /\ runs = 1
    /\ okRuns = 0

----------------------------------------------------------------------------
(* The script, one action per statement *)

\* line 9-10: conn = sqlite3.connect(DB_PATH); c = conn.cursor()
Connect ==
    /\ pc = "connect"
    /\ conn' = "open"
    /\ txn' = db
    /\ pc' = "select"
    /\ UNCHANGED <<quotes, unique, db, quote_ids, i, attempted, stdout, dbAtStart,
                   commits, runs, okRuns>>

\* line 13-14: the SELECT and the list of the ids it returns
Select ==
    /\ pc = "select"
    /\ quote_ids' = SelectMedium(quotes, NUM_DAYS)
    /\ i' = 0
    /\ pc' = "loop"
    /\ UNCHANGED <<quotes, unique, db, txn, conn, attempted, stdout, dbAtStart,
                   commits, runs, okRuns>>

\* variant: the date advances only when a row was inserted
LoopRowByInserted(ids, k) == Row(ids[k + 1], puzzle_date(Len(txn) - Len(dbAtStart)))

\* the row iteration k (0-based) of the loop inserts
LoopRow(ids, k) == Row(ids[k + 1], puzzle_date(k))

\* variant: a connection in autocommit mode (isolation_level=None)
InsertAutocommit ==
    /\ pc = "loop"
    /\ i < Len(quote_ids)
    /\ LET r == Row(quote_ids[i + 1], puzzle_date(i))
       IN  /\ attempted' = Append(attempted, r)
           /\ txn' = InsertOrIgnore(unique, txn, r)
           /\ db' = InsertOrIgnore(unique, txn, r)
    /\ i' = i + 1
    /\ UNCHANGED <<quotes, unique, conn, pc, quote_ids, stdout, dbAtStart,
                   commits, runs, okRuns>>

\* line 16-18: one iteration of the loop
Insert ==
    /\ pc = "loop"
    /\ i < Len(quote_ids)
    /\ LET r == LoopRow(quote_ids, i)
       IN  /\ attempted' = Append(attempted, r)
           /\ txn' = InsertOrIgnore(unique, txn, r)
    /\ i' = i + 1
    /\ UNCHANGED <<quotes, unique, db, conn, pc, quote_ids, stdout, dbAtStart,
                   commits, runs, okRuns>>

\* line 20: conn.commit(), reached when the loop is exhausted
Commit ==
    /\ pc = "loop"
    /\ i = Len(quote_ids)
    /\ db' = txn
    /\ commits' = commits + 1
    /\ pc' = "close"
    /\ UNCHANGED <<quotes, unique, txn, conn, quote_ids, i, attempted, stdout,
                   dbAtStart, runs, okRuns>>

\* line 21: conn.close()
Close ==
    /\ pc = "close"
    /\ conn' = "closed"
    /\ pc' = "print"
    /\ UNCHANGED <<quotes, unique, db, txn, quote_ids, i, attempted, stdout,
                   dbAtStart, commits, runs, okRuns>>

\* line 22: print(...)
PrintSummary ==
    /\ pc = "print"
    /\ stdout' = Append(stdout, Summary(quote_ids))
    /\ pc' = "done"
    /\ okRuns' = okRuns + 1
    /\ UNCHANGED <<quotes, unique, db, txn, conn, quote_ids, i, attempted,
                   dbAtStart, commits, runs>>

\* variant: the exception is swallowed and the script goes on to its summary
RaiseSwallowed ==
    /\ pc \in {"connect", "select", "loop"}
    /\ pc' = "print"
    /\ UNCHANGED <<quotes, unique, db, txn, conn, quote_ids, i, attempted, stdout,
                   dbAtStart, commits, runs, okRuns>>

\* an sqlite3 call of lines 9-20 raises: nothing catches it, the process ends
\* with the transaction uncommitted and the connection not closed
Raise ==
    /\ pc \in {"connect", "select", "loop"}
    /\ pc' = "error"
    /\ UNCHANGED <<quotes, unique, db, txn, conn, quote_ids, i, attempted, stdout,
                   dbAtStart, commits, runs, okRuns>>

\* the script is executed again on the store the previous execution left
Rerun ==
    /\ pc \in {"done", "error"}
    /\ runs < MaxRuns
    /\ runs' = runs + 1
    /\ pc' = "connect"
    /\ conn' = "none"
    /\ txn' = db
    /\ dbAtStart' = db
    /\ quote_ids' = <<>>
    /\ i' = 0
    /\ attempted' = <<>>
    /\ stdout' = <<>>
    /\ commits' = 0
    /\ UNCHANGED <<quotes, unique, db, okRuns>>

Next == Connect \/ Select \/ Insert \/ Commit \/ Close \/ PrintSummary \/ Raise \/ Rerun

Spec == Init /\ [][Next]_vars

----------------------------------------------------------------------------
(* The calendar, stated independently of the datetime algorithms above: the *)
(* day after a date, and the ISO text of a date from literal tables.        *)

DaysIn(y, m) ==
    IF m = 2 THEN (IF y % 4 = 0 /\ (y % 100 # 0 \/ y % 400 = 0) THEN 29 ELSE 28)
    ELSE IF m \in {4, 6, 9, 11} THEN 30 ELSE 31

\* the days of month m of year y, in order
MonthDays(y, m) == [d \in 1..DaysIn(y, m) |-> <<y, m, d>>]

\* the days of year y, in order
YearDays(y) ==
    MonthDays(y, 1) \o MonthDays(y, 2) \o MonthDays(y, 3) \o MonthDays(y, 4)
        \o MonthDays(y, 5) \o MonthDays(y, 6) \o MonthDays(y, 7) \o MonthDays(y, 8)
        \o MonthDays(y, 9) \o MonthDays(y, 10) \o MonthDays(y, 11) \o MonthDays(y, 12)

\* the first k days of the calendar from day d of 2025 on
DaysFrom(d, k) ==
    LET cal   == YearDays(2025) \o YearDays(2026) \o YearDays(2027)
        first == CHOOSE n \in DOMAIN cal : cal[n] = d
    IN  SubSeq(cal, first, first + k - 1)

TwoDigits == << "01", "02", "03", "04", "05", "06", "07", "08", "09", "10",
                "11", "12", "13", "14", "15", "16", "17", "18", "19", "20",
                "21", "22", "23", "24", "25", "26", "27", "28", "29", "30", "31" >>

YearText(y) == CASE y = 2025 -> "2025" [] y = 2026 -> "2026" [] y = 2027 -> "2027"

IsoText(d) == YearText(d[1]) \o "-" \o TwoDigits[d[2]] \o "-" \o TwoDigits[d[3]]

\* ExpectedDates[k] is the text of the (k-1)-th day after 2025-04-23
ExpectedDates ==
    LET days == DaysFrom(<<2025, 4, 23>>, NUM_DAYS + MaxOver + 1)
    IN  [k \in DOMAIN days |-> IsoText(days[k])]

DigitText == << "0", "1", "2", "3", "4", "5", "6", "7", "8", "9" >>

\* decimal text of 0 <= n < 1000
CountText(n) ==
    IF n < 10 THEN DigitText[n + 1]
    ELSE IF n < 100 THEN DigitText[(n \div 10) + 1] \o DigitText[(n % 10) + 1]
    ELSE DigitText[(n \div 100) + 1] \o DigitText[((n \div 10) % 10) + 1]
             \o DigitText[(n % 10) + 1]

\* the number of quotes whose difficulty is "medium"
M == Cardinality({p \in DOMAIN quotes : quotes[p].difficulty = "medium"})

\* the ids of the medium quotes
MediumIds == {quotes[p].id : p \in {x \in DOMAIN quotes : quotes[x].difficulty = "medium"}}

\* the loop of this run is over
LoopDone == pc \in {"close", "print", "done"}

\* a run before this one reached the end of the script
EarlierRunOk == okRuns - (IF pc = "done" THEN 1 ELSE 0) >= 1

\* the rows this run added to a table
Added(rows) == SubSeq(rows, Len(dbAtStart) + 1, Len(rows))

KeysOf(rows) == {Key(unique, rows[k]) : k \in DOMAIN rows}

\* the executed INSERTs whose row conflicts with a row present before the run
ConflictingAttempts ==
    LET keys == KeysOf(dbAtStart)
    IN  {k \in DOMAIN attempted : Key(unique, attempted[k]) \in keys}

----------------------------------------------------------------------------
(* The claims *)

\* C1 (idempotence): once a run has reached the end of the script, a later run
\* on the same store adds no row: the connection's table and the committed
\* table stay equal to the table the run started on.
C1_Idempotence ==
    EarlierRunOk => (txn = dbAtStart /\ db = dbAtStart)

C1_Witness ==
    /\ pc = "done" /\ okRuns = 2
    /\ Len(attempted) = NUM_DAYS
    /\ Len(db) >= NUM_DAYS

\* C2 (date mapping): the k-th INSERT executed (k from 1) has the k-th id of the
\* selection and the text of the day START_DATE + (k-1), nothing else is
\* attempted, every selected id is attempted once the loop is over, and the
\* selection lists the ids in the store's scan order.
C2_DateMapping ==
    /\ Len(attempted) <= Len(quote_ids)
    /\ \A k \in DOMAIN attempted : attempted[k] = Row(quote_ids[k], ExpectedDates[k])
    /\ LoopDone => Len(attempted) = Len(quote_ids)
    /\ (pc = "loop" /\ i = 0) =>
          LET pos == [k \in DOMAIN quote_ids |->
                         CHOOSE p \in DOMAIN quotes : quotes[p].id = quote_ids[k]]
          IN  \A k \in DOMAIN pos : k > 1 => pos[k - 1] < pos[k]

C2_Witness ==
    /\ pc = "done"
    /\ quote_ids = <<2, 1, 4>>
    /\ attempted = << Row(2, "2025-04-23"), Row(1, "2025-04-24"), Row(4, "2025-04-25") >>

\* C3 (cap respected): a run never adds more than min(M, NUM_DAYS) rows, and
\* when its loop is over it has added exactly min(M, NUM_DAYS) minus the number
\* of attempted rows that conflict with a row present before the run.
C3_CapRespected ==
    /\ Len(txn) - Len(dbAtStart) <= MinOf(M, NUM_DAYS)
    /\ Len(db) - Len(dbAtStart) <= MinOf(M, NUM_DAYS)
    /\ LoopDone =>
          Len(txn) - Len(dbAtStart) = MinOf(M, NUM_DAYS) - Cardinality(ConflictingAttempts)
    /\ pc = "done" =>
          Len(db) - Len(dbAtStart) = MinOf(M, NUM_DAYS) - Cardinality(ConflictingAttempts)

C3_Witness ==
    /\ pc = "done"
    /\ M > NUM_DAYS
    /\ ConflictingAttempts = {}
    /\ Len(db) - Len(dbAtStart) = NUM_DAYS

\* C4 (non-medium exclusion): every row a run adds, committed or not, has the
\* id of a quote whose difficulty is "medium".
C4_NonMediumExclusion ==
    LET med == MediumIds
    IN  /\ \A k \in (Len(dbAtStart) + 1)..Len(txn) : txn[k].quote_id \in med
        /\ \A k \in (Len(dbAtStart) + 1)..Len(db) : db[k].quote_id \in med

C4_Witness ==
    /\ pc = "done"
    /\ Len(db) > Len(dbAtStart)
    /\ \E p \in DOMAIN quotes : quotes[p].difficulty # "medium"

\* C5 (reported count): a run that ends prints "Populated <min(M, NUM_DAYS)>
\* daily puzzles starting from 2025-04-23", the number of ids fetched, whatever
\* was inserted; with an empty quotes table it prints 0 and inserts nothing.
C5_ReportedCount ==
    /\ pc = "done" =>
          /\ Len(quote_ids) = MinOf(M, NUM_DAYS)
          /\ stdout = << "Populated " \o CountText(MinOf(M, NUM_DAYS))
                            \o " daily puzzles starting from 2025-04-23" >>
    /\ (pc = "done" /\ quotes = <<>>) =>
          /\ stdout = << "Populated 0 daily puzzles starting from 2025-04-23" >>
          /\ attempted = <<>>
          /\ db = dbAtStart

C5_Witness ==
    /\ pc = "done"
    /\ Len(db) > Len(dbAtStart)
    /\ Len(quote_ids) > Len(db) - Len(dbAtStart)

\* C6 (existing rows preserved): the rows present before a run stay, unchanged
\* and in place, in the connection's table and in the committed table; the rows
\* added are exactly the attempted rows that do not conflict with a row present
\* before the run, so that an ignored insert changes nothing and the loop goes on.
C6_ExistingRowsPreserved ==
    LET keys == KeysOf(dbAtStart)
        Fresh(r) == Key(unique, r) \notin keys
    IN  /\ Len(txn) >= Len(dbAtStart) /\ SubSeq(txn, 1, Len(dbAtStart)) = dbAtStart
        /\ Len(db) >= Len(dbAtStart) /\ SubSeq(db, 1, Len(dbAtStart)) = dbAtStart
        /\ Added(txn) = SelectSeq(attempted, Fresh)

C6_Witness ==
    /\ pc = "done"
    /\ \E k \in ConflictingAttempts :
          \E j \in DOMAIN attempted : j > k /\ j \notin ConflictingAttempts

\* C7 (uniqueness): in every state of every run no two rows of daily_puzzles,
\* committed or seen by the connection, share the constrained key.
C7_Uniqueness ==
    /\ Cardinality(KeysOf(txn)) = Len(txn)
    /\ Cardinality(KeysOf(db)) = Len(db)

C7_Witness ==
    /\ pc = "done" /\ runs = 2
    /\ unique = "date"
    /\ ConflictingAttempts # {}
    /\ Len(db) > Len(dbAtStart)

\* C8 (no partial persistence): a run commits at most once, only when all the
\* inserts are done; until then, and in a run that ended in an error, the
\* committed table is the one the run started on.
C8_NoPartialPersistence ==
    /\ commits <= 1
    /\ commits = 0 => db = dbAtStart
    /\ commits = 1 => (LoopDone /\ db = txn /\ Len(attempted) = Len(quote_ids))
    /\ pc = "error" => (commits = 0 /\ db = dbAtStart)
    /\ pc = "done" => commits = 1

C8_Witness ==
    /\ pc = "error"
    /\ Len(txn) > Len(dbAtStart)
    /\ i < Len(quote_ids)

\* C9 (step ordering): the steps of a run follow the order open, select,
\* inserts, commit, close, print; the summary is printed once, after the commit
\* and the close; a run that ends in an error has printed nothing and has not
\* closed its connection.
StepOrder ==
    /\ pc' # pc =>
          <<pc, pc'>> \in { <<"connect", "select">>, <<"select", "loop">>,
                            <<"loop", "close">>, <<"close", "print">>,
                            <<"print", "done">>,
                            <<"connect", "error">>, <<"select", "error">>,
                            <<"loop", "error">>,
                            <<"done", "connect">>, <<"error", "connect">> }
    /\ conn' # conn =>
          \/ pc = "connect" /\ conn = "none" /\ conn' = "open"
          \/ pc = "close" /\ conn = "open" /\ conn' = "closed" /\ commits = 1
          \/ pc' = "connect" /\ conn' = "none"
    /\ quote_ids' # quote_ids => (pc = "select" /\ conn = "open") \/ pc' = "connect"
    /\ attempted' # attempted =>
          (pc = "loop" /\ conn = "open" /\ commits = 0) \/ pc' = "connect"
    /\ commits' # commits =>
          \/ /\ pc = "loop" /\ conn = "open" /\ commits = 0 /\ commits' = 1
             /\ Len(attempted) = Len(quote_ids)
          \/ pc' = "connect"
    /\ stdout' # stdout =>
          \/ /\ pc = "print" /\ conn = "closed" /\ commits = 1
             /\ stdout = <<>> /\ Len(stdout') = 1
          \/ pc' = "connect"
    /\ pc' = "done" => (Len(stdout') = 1 /\ conn' = "closed" /\ commits' = 1)
    /\ pc' = "error" => (stdout' = <<>> /\ conn' # "closed")

C9_StepOrdering == [][StepOrder]_vars

C9_Witness ==
    /\ pc = "done"
    /\ conn = "closed"
    /\ Len(stdout) = 1
    /\ Len(attempted) = MaxQuotes

\* C10 (dates of a run): the dates attempted in a run are pairwise distinct and
\* are the days START_DATE .. START_DATE + k - 1 for the k inserts executed,
\* the j-th insert on the j-th day whatever was ignored before it; a run on an
\* empty daily_puzzles table ends with one row per selected id and per day.
C10_DatesGapFree ==
    LET dates == {attempted[k].puzzle_date : k \in DOMAIN attempted}
    IN  /\ Cardinality(dates) = Len(attempted)
        /\ dates = {ExpectedDates[k] : k \in 1..Len(attempted)}
        /\ \A k \in DOMAIN attempted : attempted[k].puzzle_date = ExpectedDates[k]
        /\ LoopDone => Len(attempted) = Len(quote_ids)
        /\ (LoopDone /\ dbAtStart = <<>>) =>
              /\ Len(txn) = Len(quote_ids)
              /\ {txn[k].puzzle_date : k \in DOMAIN txn} = dates
              /\ {txn[k].quote_id : k \in DOMAIN txn}
                    = {quote_ids[k] : k \in DOMAIN quote_ids}
              /\ Cardinality({quote_ids[k] : k \in DOMAIN quote_ids}) = Len(quote_ids)
        /\ (pc = "done" /\ dbAtStart = <<>>) => db = txn

C10_Witness ==
    /\ pc = "done"
    /\ dbAtStart = <<>>
    /\ Len(db) = NUM_DAYS

====
